---- MODULE Spec2Model ----
(***************************************************************************)
(* Model of archan's analysis engine (src/archan/analysis.py):             *)
(* Analysis.run, Analysis.successful, Analysis.output_tap, AnalysisGroup   *)
(* and Result.  Plugins (providers, checkers) are the environment: a       *)
(* provider's run() sets its data or raises, a checker's run(data) sets    *)
(* its result (code, messages) or raises.  Execution is single-threaded,   *)
(* so each public method is one atomic action.                             *)
(*                                                                         *)
(* Strings that the code takes apart or concatenates (messages, hints,     *)
(* descriptions, diagnostics) are sequences of tokens; NL is "\n".         *)
(***************************************************************************)
EXTENDS Integers, Sequences, FiniteSets, TLC

VARIABLES
    config,        \* config.analysis_groups: sequence of AnalysisGroup
    results,       \* Analysis.results
    groupResults,  \* AnalysisGroup.results, per group index
    providerData,  \* Provider.data, per group index and provider index
    callLog,       \* plugin invocations of the most recent run(), in order
    runStatus,     \* "none" | "returned" | "raised": how the last run() ended
    runs,          \* number of run() calls made so far
    prevResults,   \* Analysis.results as the previous run() left it
    prevStatus,    \* runStatus of the previous run()
    successful,    \* Analysis.successful as read after the last operation
    tapOut,        \* test points given to the Tracker by the last output_tap()
    tapStatus      \* "none" | "done" | "raised"

vars == <<config, results, groupResults, providerData, callLog, runStatus,
          runs, prevResults, prevStatus, successful, tapOut, tapStatus>>

----------------------------------------------------------------------------
\* Bounds of the model.
MaxGroups == 2
MaxProviders == 2
MaxCheckers == 2
MaxRuns == 2

----------------------------------------------------------------------------
\* ResultCode and Python values.
PASSED == "PASSED"
FAILED == "FAILED"
IGNORED == "IGNORED"
NOT_IMPLEMENTED == "NOT_IMPLEMENTED"

NL == "\n"
NoProvider == 0          \* provider=None in Result and _get_checker_result
NoneData == <<>>         \* the None handed to checker.run without provider
Unset == <<0, 0>>        \* Provider.data before the provider has run

\* The plugins a configuration can name.  A checker's behaviour is what its
\* run(data) leaves in checker.result; "raises" stands for an unexpected fault.
CheckerRegistry ==
    << [name |-> "needs_data", hint |-> <<"give", NL, "data">>, kind |-> "needs_data"],
       [name |-> "allowed",    hint |-> <<"h2">>,               kind |-> "ignored"],
       [name |-> "todo",       hint |-> <<>>,                   kind |-> "not_implemented"],
       [name |-> "strict",     hint |-> <<"fix", " ", "it">>,   kind |-> "failed"],
       [name |-> "lenient",    hint |-> <<"h5">>,               kind |-> "passed"],
       [name |-> "broken",     hint |-> <<"h6">>,               kind |-> "raises"] >>

ProviderRegistry ==
    << [name |-> "prov_a", kind |-> "ok"],
       [name |-> "prov_b", kind |-> "ok"],
       [name |-> "prov_c", kind |-> "ok"],
       [name |-> "prov_x", kind |-> "raises"] >>

Rotate(reg, k) == reg[(k % Len(reg)) + 1]

\* AnalysisGroup.__init__: name, providers or [], checkers or [].
AnalysisGroup(g, p, c, offset) ==
    [ name      |-> <<"group", g>>,
      providers |-> [i \in 1..p |-> Rotate(ProviderRegistry, offset + (i - 1))],
      checkers  |-> [j \in 1..c |-> Rotate(CheckerRegistry, offset + (g - 1) + (j - 1))] ]

\* Result.__init__
Result(g, i, j, code, messages) ==
    [group |-> g, provider |-> i, checker |-> j, code |-> code, messages |-> messages]

----------------------------------------------------------------------------
\* Plugin behaviour (environment).

\* Provider.run(): sets provider.data, or raises.
ProviderRun(g, i) ==
    IF config[g].providers[i].kind = "raises"
    THEN [raised |-> TRUE, data |-> Unset]
    ELSE [raised |-> FALSE, data |-> <<g, i>>]

\* Checker.run(data): sets checker.result = (code, messages), or raises.
CheckerRun(kind, data) ==
    CASE kind = "needs_data" ->
           IF data = NoneData
           THEN [raised |-> FALSE, code |-> FAILED, messages |-> <<"b", "a", "d">>]
           ELSE [raised |-> FALSE, code |-> PASSED, messages |-> <<>>]
      [] kind = "ignored" ->
           [raised |-> FALSE, code |-> IGNORED, messages |-> <<"w">>]
      [] kind = "not_implemented" ->
           [raised |-> FALSE, code |-> NOT_IMPLEMENTED, messages |-> <<>>]
      [] kind = "failed" ->
           [raised |-> FALSE, code |-> FAILED, messages |-> <<"x", NL, "y">>]
      [] kind = "passed" ->
           [raised |-> FALSE, code |-> PASSED, messages |-> <<>>]
      [] OTHER ->
           [raised |-> TRUE, code |-> FAILED, messages |-> <<>>]

----------------------------------------------------------------------------
\* Analysis.run

\* self.results.clear()
KeepResults(rs) == rs
ClearResults(rs) == <<>>

\* provider.data if provider else None
FirstProviderData(pd, g, i) == IF i # NoProvider THEN pd[g][1] ELSE NoneData
StaleData(pd, g, i) == IF i # NoProvider THEN pd[g][i] ELSE Unset
DataArg(pd, g, i) == IF i # NoProvider THEN pd[g][i] ELSE NoneData

\* Result(group, provider, checker, *checker.result)
ResultWithoutProvider(g, i, j, out) == Result(g, NoProvider, j, out.code, out.messages)
BuildResult(g, i, j, out) == Result(g, i, j, out.code, out.messages)

\* An exception raised by a plugin leaves every enclosing loop of run().
Swallowed(st) == FALSE
Propagates(st) == st.raised

\* _get_checker_result, then the two appends of the loop body.
CheckerStep(st, g, i, j) ==
    LET data == DataArg(st.data, g, i)
        out  == CheckerRun(config[g].checkers[j].kind, data)
        call == [plugin |-> "checker", group |-> g, provider |-> i, checker |-> j,
                 data |-> data, raised |-> out.raised,
                 code |-> out.code, messages |-> out.messages]
    IN  IF out.raised
        THEN [st EXCEPT !.log = Append(@, call), !.raised = TRUE]
        ELSE [st EXCEPT !.log = Append(@, call),
                        !.results = Append(@, BuildResult(g, i, j, out)),
                        !.groupResults[g] = Append(@, BuildResult(g, i, j, out))]

\* for checker in analysis_group.checkers
RECURSIVE RunCheckers(_, _, _, _)
RunCheckers(st, g, i, j) ==
    IF Propagates(st) \/ j > Len(config[g].checkers) THEN st
    ELSE RunCheckers(CheckerStep(st, g, i, j), g, i, j + 1)

\* provider.run()
ProviderStep(st, g, i) ==
    LET out  == ProviderRun(g, i)
        call == [plugin |-> "provider", group |-> g, provider |-> i, checker |-> 0,
                 data |-> out.data, raised |-> out.raised,
                 code |-> PASSED, messages |-> <<>>]
    IN  IF out.raised
        THEN [st EXCEPT !.log = Append(@, call), !.raised = TRUE]
        ELSE [st EXCEPT !.log = Append(@, call), !.data[g][i] = out.data]

\* for provider in analysis_group.providers
RECURSIVE RunProviders(_, _, _)
RunProviders(st, g, i) ==
    IF Propagates(st) \/ i > Len(config[g].providers) THEN st
    ELSE RunProviders(RunCheckers(ProviderStep(st, g, i), g, i, 1), g, i + 1)

\* for analysis_group in self.config.analysis_groups
RECURSIVE RunGroups(_, _)
RunGroups(st, g) ==
    IF Propagates(st) \/ g > Len(config) THEN st
    ELSE IF Len(config[g].providers) > 0
         THEN RunGroups(RunProviders(st, g, 1), g + 1)
         ELSE RunGroups(RunCheckers(st, g, NoProvider, 1), g + 1)

\* Analysis.successful
IsFailureOrTodo(code) == code \in {FAILED, NOT_IMPLEMENTED}
IsFailure(code) == code = FAILED

RECURSIVE SuccessfulFrom(_, _)
SuccessfulFrom(rs, k) ==
    IF k > Len(rs) THEN TRUE
    ELSE IF IsFailure(rs[k].code) THEN FALSE
    ELSE SuccessfulFrom(rs, k + 1)

Successful(rs) == SuccessfulFrom(rs, 1)

----------------------------------------------------------------------------
\* Analysis.output_tap

\* str.split("\n")
RECURSIVE Split(_)
Split(s) ==
    IF \A k \in 1..Len(s) : s[k] # NL THEN <<s>>
    ELSE LET k == CHOOSE n \in 1..Len(s) :
                      s[n] = NL /\ \A m \in 1..(n - 1) : s[m] # NL
         IN  <<SubSeq(s, 1, k - 1)>> \o Split(SubSeq(s, k + 1, Len(s)))

\* sep.join(parts)
RECURSIVE Join(_, _)
Join(sep, parts) ==
    IF Len(parts) = 0 THEN <<>>
    ELSE IF Len(parts) = 1 THEN parts[1]
    ELSE parts[1] \o sep \o Join(sep, Tail(parts))

\* "  ---\n  message: %s\n  hint: %s\n  ..." % (joined messages, hint)
Diagnostics(messages, hint) ==
    <<"  ---", NL, "  message: ">>
        \o Join(<<NL, "  message: ">>, Split(messages))
        \o <<NL, "  hint: ">> \o hint \o <<NL, "  ...">>

\* Tracker.add_ok / Tracker.add_not_ok
AddOk(suite, description) ==
    [ok |-> TRUE, suite |-> suite, description |-> description,
     directive |-> "", diagnostics |-> <<>>]
AddNotOk(suite, description, directive, diagnostics) ==
    [ok |-> FALSE, suite |-> suite, description |-> description,
     directive |-> directive, diagnostics |-> diagnostics]

\* The if/elif chain choosing the suite and the description lambda.
BranchTieToChecker(p, c) ==
    IF p = 0 /\ c > 0 THEN "group"
    ELSE IF c = 0 THEN "skip"
    ELSE IF p >= c THEN "checker"
    ELSE "provider"
BranchCountsFirst(p, c) ==
    IF p = 0 /\ c > 0 THEN "group"
    ELSE IF p > c THEN "checker"
    ELSE IF c = 0 THEN "skip"
    ELSE "provider"
Branch(p, c) ==
    IF p = 0 /\ c > 0 THEN "group"
    ELSE IF c = 0 THEN "skip"
    ELSE IF p > c THEN "checker"
    ELSE "provider"

\* test_suite: group.name, group.checkers[0].name or group.providers[0].name;
\* indexing an empty list raises IndexError.
TestSuite(g, branch) ==
    CASE branch = "group" -> [raised |-> FALSE, name |-> config[g].name]
      [] branch = "checker" ->
           IF Len(config[g].checkers) = 0 THEN [raised |-> TRUE, name |-> ""]
           ELSE [raised |-> FALSE, name |-> config[g].checkers[1].name]
      [] OTHER ->
           IF Len(config[g].providers) = 0 THEN [raised |-> TRUE, name |-> ""]
           ELSE [raised |-> FALSE, name |-> config[g].providers[1].name]

\* description_lambda(result); r.provider.name raises when r.provider is None.
Description(g, branch, r) ==
    IF branch = "checker"
    THEN IF r.provider = NoProvider THEN [raised |-> TRUE, text |-> <<>>]
         ELSE [raised |-> FALSE, text |-> <<config[g].providers[r.provider].name>>]
    ELSE [raised |-> FALSE, text |-> <<config[g].checkers[r.checker].name>>]

\* The if/elif chain on result.code.
PointsRawMessage(g, r, suite, description) ==
    IF r.code = PASSED THEN <<AddOk(suite, description)>>
    ELSE IF r.code = IGNORED
    THEN <<AddOk(suite, description \o <<" (ALLOWED FAILURE)">>)>>
    ELSE IF r.code = NOT_IMPLEMENTED
    THEN <<AddNotOk(suite, description, "TODO implement the test", <<>>)>>
    ELSE IF r.code = FAILED
    THEN <<AddNotOk(suite, description, "",
                    <<"  ---", NL, "  message: ">> \o r.messages
                        \o <<NL, "  ...">>)>>
    ELSE <<>>
Points(g, r, suite, description) ==
    IF r.code = PASSED THEN <<AddOk(suite, description)>>
    ELSE IF r.code = IGNORED
    THEN <<AddOk(suite, description \o <<" (ALLOWED FAILURE)">>)>>
    ELSE IF r.code = NOT_IMPLEMENTED
    THEN <<AddNotOk(suite, description, "TODO implement the test", <<>>)>>
    ELSE IF r.code = FAILED
    THEN <<AddNotOk(suite, description, "",
                    Diagnostics(r.messages, config[g].checkers[r.checker].hint))>>
    ELSE <<>>

\* for result in group.results
RECURSIVE TapResults(_, _, _, _, _)
TapResults(t, g, branch, suite, k) ==
    IF t.raised \/ k > Len(groupResults[g]) THEN t
    ELSE LET r == groupResults[g][k]
             d == Description(g, branch, r)
         IN  IF d.raised THEN [t EXCEPT !.raised = TRUE]
             ELSE TapResults([t EXCEPT !.out = @ \o Points(g, r, suite, d.text)],
                             g, branch, suite, k + 1)

\* for group in self.config.analysis_groups
RECURSIVE TapGroups(_, _)
TapGroups(t, g) ==
    IF t.raised \/ g > Len(config) THEN t
    ELSE LET branch == Branch(Len(config[g].providers), Len(config[g].checkers))
         IN  IF branch = "skip" THEN TapGroups(t, g + 1)
             ELSE LET s == TestSuite(g, branch)
                  IN  IF s.raised THEN [t EXCEPT !.raised = TRUE]
                      ELSE TapGroups(TapResults(t, g, branch, s.name, 1), g + 1)

----------------------------------------------------------------------------
\* The state machine.

\* Analysis.__init__ over a freshly built configuration.
Init ==
    /\ \E n \in 0..MaxGroups :
       \E offset \in 0..(Len(CheckerRegistry) - 1) :
       \E shape \in [1..n -> (0..MaxProviders) \X (0..MaxCheckers)] :
          /\ config = [g \in 1..n |->
                          AnalysisGroup(g, shape[g][1], shape[g][2], offset)]
          /\ groupResults = [g \in 1..n |-> <<>>]
          /\ providerData = [g \in 1..n |-> [i \in 1..shape[g][1] |-> Unset]]
    /\ results = <<>>
    /\ callLog = <<>>
    /\ runStatus = "none"
    /\ runs = 0
    /\ prevResults = <<>>
    /\ prevStatus = "none"
    /\ successful = Successful(<<>>)
    /\ tapOut = <<>>
    /\ tapStatus = "none"

\* Analysis.run(), followed by the caller reading Analysis.successful.
Run ==
    /\ runs < MaxRuns
    /\ LET st0 == [results |-> ClearResults(results), groupResults |-> groupResults,
                   data |-> providerData, log |-> <<>>, raised |-> FALSE]
           st  == RunGroups(st0, 1)
       IN  /\ results' = st.results
           /\ groupResults' = st.groupResults
           /\ providerData' = st.data
           /\ callLog' = st.log
           /\ runStatus' = IF st.raised THEN "raised" ELSE "returned"
           /\ successful' = Successful(st.results)
    /\ runs' = runs + 1
    /\ prevResults' = results
    /\ prevStatus' = runStatus
    /\ tapOut' = <<>>
    /\ tapStatus' = "none"
    /\ UNCHANGED config

\* Analysis.output_tap()
OutputTap ==
    /\ LET t == TapGroups([out |-> <<>>, raised |-> FALSE], 1)
       IN  /\ tapOut' = t.out
           /\ tapStatus' = IF t.raised THEN "raised" ELSE "done"
    /\ successful' = Successful(results)
    /\ UNCHANGED <<config, results, groupResults, providerData, callLog,
                   runStatus, runs, prevResults, prevStatus>>

Next == Run \/ OutputTap

Spec == Init /\ [][Next]_vars

----------------------------------------------------------------------------
\* Vocabulary of the properties.

Groups == 1..Len(config)
NP(g) == Len(config[g].providers)
NC(g) == Len(config[g].checkers)

\* Pairings one run executes for group g, and for the whole configuration.
Pairings(g) == IF NP(g) > 0 THEN NP(g) * NC(g) ELSE NC(g)
PairingsBefore[g \in 1..(Len(config) + 1)] ==
    IF g = 1 THEN 0 ELSE PairingsBefore[g - 1] + Pairings(g - 1)
TotalPairings == PairingsBefore[Len(config) + 1]

\* Plugin invocations one complete run makes before it reaches group g.
CallsOf(g) == IF NP(g) > 0 THEN NP(g) * (NC(g) + 1) ELSE NC(g)
CallsBefore[g \in 1..(Len(config) + 1)] ==
    IF g = 1 THEN 0 ELSE CallsBefore[g - 1] + CallsOf(g - 1)

\* Test points output_tap emits before it reaches group g.
TapBefore[g \in 1..(Len(config) + 1)] ==
    IF g = 1 THEN 0
    ELSE TapBefore[g - 1] + (IF NC(g - 1) > 0 THEN Len(groupResults[g - 1]) ELSE 0)

IsCheckerCall(e, g, i, j) ==
    e.plugin = "checker" /\ e.group = g /\ e.provider = i /\ e.checker = j
IsProviderCall(e, g, i) ==
    e.plugin = "provider" /\ e.group = g /\ e.provider = i

\* needle occurs in hay as a contiguous block.
Contains(hay, needle) ==
    \E k \in 0..(Len(hay) - Len(needle)) :
        \A m \in 1..Len(needle) : hay[k + m] = needle[m]

\* The lines of s: the maximal blocks of s free of NL.
LinesOf(s) ==
    { SubSeq(s, a, b) : <<a, b>> \in
        { ab \in (1..(Len(s) + 1)) \X (0..Len(s)) :
            /\ ab[2] >= ab[1] - 1
            /\ \A m \in ab[1]..ab[2] : s[m] # NL
            /\ (ab[1] = 1 \/ s[ab[1] - 1] = NL)
            /\ (ab[2] = Len(s) \/ s[ab[2] + 1] = NL) } }

\* The pairings of the configuration, as <<group, provider, checker>>.
AllPairings ==
    { t \in Groups \X (0..MaxProviders) \X (1..MaxCheckers) :
        /\ t[3] <= NC(t[1])
        /\ IF NP(t[1]) > 0 THEN t[2] \in 1..NP(t[1]) ELSE t[2] = NoProvider }

\* The first invocation of the last run that raised.
FaultIndex == CHOOSE k \in 1..Len(callLog) :
                  callLog[k].raised /\ \A m \in 1..(k - 1) : ~callLog[m].raised

\* Pairing t comes after call f in the configured order.
After(t, f) ==
    \/ t[1] > f.group
    \/ t[1] = f.group /\ t[2] > f.provider
    \/ t[1] = f.group /\ t[2] = f.provider /\ t[3] > f.checker

HasResult(t) ==
    \E k \in 1..Len(results) :
        results[k].group = t[1] /\ results[k].provider = t[2] /\ results[k].checker = t[3]
WasCalled(t) ==
    \E k \in 1..Len(callLog) : IsCheckerCall(callLog[k], t[1], t[2], t[3])

----------------------------------------------------------------------------
\* C1: after one run() on a fresh configuration, a group with p > 0 providers
\* and c checkers holds exactly p*c results, in provider-major, checker-minor
\* order: position (i-1)*c + j holds provider i, checker j, the group itself,
\* and the code and messages the checker reported for that pairing.
C1_ProviderMajorResults ==
    (runs = 1 /\ runStatus = "returned") =>
        \A g \in Groups : NP(g) > 0 =>
            /\ Len(groupResults[g]) = NP(g) * NC(g)
            /\ \A i \in 1..NP(g) : \A j \in 1..NC(g) :
                   LET r == groupResults[g][(i - 1) * NC(g) + j]
                   IN  /\ r.group = g /\ r.provider = i /\ r.checker = j
                       /\ \E k \in 1..Len(callLog) :
                              /\ IsCheckerCall(callLog[k], g, i, j)
                              /\ ~callLog[k].raised
                              /\ r.code = callLog[k].code
                              /\ r.messages = callLog[k].messages
                       /\ results[PairingsBefore[g] + (i - 1) * NC(g) + j] = r

C1_Witness ==
    /\ runs = 1 /\ runStatus = "returned"
    /\ \E g \in Groups : NP(g) = 2 /\ NC(g) = 2 /\ Len(groupResults[g]) = 4

\* C2: after one run() on a fresh configuration, a group with no providers
\* and c > 0 checkers holds exactly c results, in checker order, each without
\* provider, and each checker was invoked exactly once, with data = None.
C2_NoProviderResults ==
    (runs = 1 /\ runStatus = "returned") =>
        \A g \in Groups : (NP(g) = 0 /\ NC(g) > 0) =>
            /\ Len(groupResults[g]) = NC(g)
            /\ \A j \in 1..NC(g) :
                   /\ groupResults[g][j].provider = NoProvider
                   /\ groupResults[g][j].checker = j
                   /\ groupResults[g][j].group = g
                   /\ Cardinality({k \in 1..Len(callLog) :
                          callLog[k].plugin = "checker" /\ callLog[k].group = g
                          /\ callLog[k].checker = j}) = 1
                   /\ \A k \in 1..Len(callLog) :
                          (callLog[k].plugin = "checker" /\ callLog[k].group = g)
                              => callLog[k].data = NoneData

C2_Witness ==
    /\ runs = 1 /\ runStatus = "returned"
    /\ \E g \in Groups : NP(g) = 0 /\ NC(g) = 2 /\ Len(groupResults[g]) = 2

\* C3: Analysis.successful is false exactly when some entry of
\* Analysis.results has code FAILED (so it is true for no results, and
\* IGNORED or NOT_IMPLEMENTED results never make it false).
C3_SuccessfulIffNoFailed ==
    (successful = FALSE) <=> (\E k \in 1..Len(results) : results[k].code = FAILED)

C3_Witness ==
    /\ successful
    /\ \E k \in 1..Len(results) : results[k].code = NOT_IMPLEMENTED
    /\ \E k \in 1..Len(results) : results[k].code = IGNORED

\* C4: after a run() that returned, every group's results hold exactly one
\* entry per pairing of the most recent run, whatever the number of runs.
C4_GroupResultsRebuilt ==
    runStatus = "returned" =>
        \A g \in Groups : Len(groupResults[g]) = Pairings(g)

\* C5: two successive runs that both return leave the same sequence in
\* Analysis.results, and it holds one run's pairings, not two.
C5_SecondRunReplacesFirst ==
    (runStatus = "returned" /\ prevStatus = "returned") =>
        /\ results = prevResults
        /\ Len(results) = TotalPairings

C5_Witness ==
    /\ runs = 2 /\ runStatus = "returned" /\ prevStatus = "returned"
    /\ Len(results) >= 2

\* C6 as stated: when a plugin raises, every pairing after the faulting
\* invocation is still run and gets its result.
C6_LaterPairingsStillRun ==
    runStatus = "raised" =>
        \A t \in AllPairings : After(t, callLog[FaultIndex]) => HasResult(t)

\* C6 amended: when a plugin raises, the exception leaves run(): the raising
\* invocation is the last one made, no pairing after it is run or gets a
\* result, and every pairing before it keeps its result.
C6_FaultAbortsRun ==
    runStatus = "raised" =>
        /\ FaultIndex = Len(callLog)
        /\ \A t \in AllPairings :
               IF After(t, callLog[FaultIndex])
               THEN ~HasResult(t) /\ ~WasCalled(t)
               ELSE IsCheckerCall(callLog[FaultIndex], t[1], t[2], t[3])
                        \/ HasResult(t)

C6_Witness ==
    /\ runStatus = "raised"
    /\ Len(results) > 0
    /\ \E t \in AllPairings : After(t, callLog[FaultIndex])

\* The test point output_tap emitted for the k-th result of group g.
PointOf(g, k) == tapOut[TapBefore[g] + k]

OutcomeExceptFailed(pt, r) ==
    /\ r.code = PASSED =>
          pt.ok /\ Len(pt.description) = 1 /\ pt.directive = "" /\ pt.diagnostics = <<>>
    /\ r.code = IGNORED =>
          pt.ok /\ Len(pt.description) = 2 /\ pt.description[2] = " (ALLOWED FAILURE)"
    /\ r.code = NOT_IMPLEMENTED =>
          ~pt.ok /\ pt.directive = "TODO implement the test"

\* C7 as stated: one test point per result of a group with checkers, in the
\* order of the group's results; a FAILED result's diagnostic block contains
\* the result's message and the checker's hint.
C7_DiagnosticsContainMessage ==
    tapStatus = "done" =>
        /\ Len(tapOut) = TapBefore[Len(config) + 1]
        /\ \A g \in Groups : NC(g) > 0 =>
               \A k \in 1..Len(groupResults[g]) :
                   LET r == groupResults[g][k]
                       pt == PointOf(g, k)
                   IN  /\ OutcomeExceptFailed(pt, r)
                       /\ r.code = FAILED =>
                              /\ ~pt.ok
                              /\ Contains(pt.diagnostics, r.messages)
                              /\ Contains(pt.diagnostics, config[g].checkers[r.checker].hint)

\* C7 amended: as above, but the diagnostic block of a FAILED result holds
\* every line of the message on a "message: " row of its own (a message of
\* several lines is not embedded verbatim), followed by the checker's hint
\* on the "hint: " row.
C7_DiagnosticsContainLines ==
    tapStatus = "done" =>
        /\ Len(tapOut) = TapBefore[Len(config) + 1]
        /\ \A g \in Groups : NC(g) > 0 =>
               \A k \in 1..Len(groupResults[g]) :
                   LET r == groupResults[g][k]
                       pt == PointOf(g, k)
                   IN  /\ OutcomeExceptFailed(pt, r)
                       /\ r.code = FAILED =>
                              /\ ~pt.ok
                              /\ \A line \in LinesOf(r.messages) :
                                     Contains(pt.diagnostics,
                                              <<"  message: ">> \o line \o <<NL>>)
                              /\ Contains(pt.diagnostics,
                                          <<NL, "  hint: ">>
                                              \o config[g].checkers[r.checker].hint
                                              \o <<NL, "  ...">>)

C7_Witness ==
    /\ tapStatus = "done"
    /\ \E g \in Groups : \E k \in 1..Len(groupResults[g]) :
           /\ groupResults[g][k].code = FAILED
           /\ Cardinality(LinesOf(groupResults[g][k].messages)) = 2
    /\ \E g \in Groups : \E k \in 1..Len(groupResults[g]) :
           groupResults[g][k].code = IGNORED

\* C8: suite and description of every test point follow from the group's
\* provider and checker counts alone: no providers gives (group name, checker
\* name); more providers than checkers gives (first checker's name, provider
\* name); otherwise, a tie included, (first provider's name, checker name).
C8_SuiteNaming ==
    tapStatus = "done" =>
        \A g \in Groups : NC(g) > 0 =>
            \A k \in 1..Len(groupResults[g]) :
                LET r == groupResults[g][k]
                    pt == PointOf(g, k)
                IN  IF NP(g) = 0
                    THEN /\ pt.suite = config[g].name
                         /\ pt.description[1] = config[g].checkers[r.checker].name
                    ELSE IF NP(g) > NC(g)
                    THEN /\ pt.suite = config[g].checkers[1].name
                         /\ pt.description[1] = config[g].providers[r.provider].name
                    ELSE /\ pt.suite = config[g].providers[1].name
                         /\ pt.description[1] = config[g].checkers[r.checker].name

C8_Witness ==
    /\ tapStatus = "done"
    /\ \E g \in Groups : NP(g) = 2 /\ NC(g) = 2 /\ Len(groupResults[g]) >= 4
    /\ \E g \in Groups : NP(g) = 2 /\ NC(g) = 1 /\ Len(groupResults[g]) >= 2

\* C9: output_tap never raises; a group without checkers contributes no
\* test point, and the groups after it still get all of theirs.
C9_NoCheckersSkipped ==
    /\ tapStatus # "raised"
    /\ tapStatus = "done" =>
          /\ Len(tapOut) = TapBefore[Len(config) + 1]
          /\ \A g \in Groups : NC(g) = 0 =>
                 /\ TapBefore[g + 1] = TapBefore[g]
                 /\ \A h \in Groups : (h > g /\ NC(h) > 0) =>
                        \A k \in 1..Len(groupResults[h]) :
                            /\ TapBefore[h] + k <= Len(tapOut)
                            /\ PointOf(h, k).ok
                                   = (groupResults[h][k].code \in {PASSED, IGNORED})

C9_Witness ==
    /\ tapStatus = "done"
    /\ Len(tapOut) > 0
    /\ \E g \in Groups : \E h \in Groups :
           g < h /\ NC(g) = 0 /\ NP(g) > 0 /\ NC(h) > 0 /\ Len(groupResults[h]) > 0

\* C10: the invocations of a run that returned form one total order: groups
\* in order, providers in order within a group, checkers in order within a
\* provider.  Each provider runs once, right after the preceding provider's
\* last checker and before its own checkers; each checker runs once per
\* pairing, on the data the most recently run provider of the group produced.
C10_InvocationOrder ==
    runStatus = "returned" =>
        /\ Len(callLog) = CallsBefore[Len(config) + 1]
        /\ \A g \in Groups :
               IF NP(g) > 0
               THEN \A i \in 1..NP(g) :
                        LET b == CallsBefore[g] + (i - 1) * (NC(g) + 1)
                        IN  /\ IsProviderCall(callLog[b + 1], g, i)
                            /\ callLog[b + 1].data = providerData[g][i]
                            /\ \A j \in 1..NC(g) :
                                   /\ IsCheckerCall(callLog[b + 1 + j], g, i, j)
                                   /\ callLog[b + 1 + j].data = callLog[b + 1].data
               ELSE \A j \in 1..NC(g) :
                        IsCheckerCall(callLog[CallsBefore[g] + j], g, NoProvider, j)

C10_Witness ==
    /\ runStatus = "returned"
    /\ Len(config) = 2
    /\ NP(1) = 2 /\ NC(1) = 2 /\ NP(2) = 2 /\ NC(2) >= 1
    /\ Len(callLog) >= 10

====
